---- MODULE Spec2Model ----
(***************************************************************************)
(* paper-latest: one run of main() (src/src/main.rs) as a sequential state *)
(* machine.  The environment (the release API, the file system, the        *)
(* terminal) answers every call nondeterministically.                      *)
(***************************************************************************)
EXTENDS Integers, Sequences, FiniteSets, TLC

\* ------------------------------------------------------------------ bounds
\* longest file / artifact body, in bytes
MaxLen == 2
\* longest "builds" list a version answers with
MaxBuilds == 3
\* longest "versions" list a version group answers with
MaxGroupLen == 2
\* how many reads of one run may fail with ErrorKind::Interrupted
MaxInterrupted == 1

\* ------------------------------------------------------------------ values
\* Option<T>: None, or Some(x) holding x
None == <<>>
Some(x) == <<x>>
Unwrap(o) == o[1]
IsSome(o) == o # <<>>

Names == {"1.19", "1.20"}
Bytes == {10, 160}
BuildNumbers == {10, 11, 12}
DownloadTypes == {"application", "mojang-mappings"}

SeqsUpTo(S, n) == UNION {[1..k -> S] : k \in 0..n}

Contents == SeqsUpTo(Bytes, MaxLen)

\* the sha256 strings a build answers with, one character per element:
\* two well-formed ones (lower and upper case), one of odd length, one with a
\* character that is no hex digit
HexStrings == {<<"0", "a">>, <<"A", "0">>, <<"a">>, <<"g", "0">>}

HexDigit == [c \in {"0", "a", "A"} |-> IF c = "0" THEN 0 ELSE 10]

\* hex::decode: Err for an odd length or a character that is no hex digit,
\* else one byte per pair of characters
hex_decode(s) ==
    IF Len(s) % 2 # 0 \/ \E i \in 1..Len(s) : s[i] \notin DOMAIN HexDigit
    THEN None
    ELSE Some([i \in 1..(Len(s) \div 2) |->
                  HexDigit[s[2 * i - 1]] * 16 + HexDigit[s[2 * i]]])

\* sha2::Sha256 stands behind a one-byte digest computed over every byte in
\* order; what the program does with a digest is compare it
RECURSIVE ShaFold(_, _)
ShaFold(h, b) == IF b = <<>> THEN h ELSE ShaFold((h * 3 + Head(b)) % 256, Tail(b))

Sha256(b) == <<ShaFold(0, b)>>

\* Iterator::max over the builds (None for an empty list)
MaxBuild_first(builds) == IF builds = <<>> THEN None ELSE Some(builds[1])

MaxBuild(builds) ==
    IF builds = <<>> THEN None
    ELSE Some(CHOOSE m \in {builds[i] : i \in 1..Len(builds)} :
                  \A i \in 1..Len(builds) : builds[i] <= m)

\* Iterator::last over a group's versions (None for an empty list)
LastVersion_first(versions) == IF versions = <<>> THEN None ELSE Some(versions[1])

LastVersion(versions) ==
    IF versions = <<>> THEN None ELSE Some(versions[Len(versions)])

\* ------------------------------------------------------------------ URLs
ProjectUrl(p) == <<"projects", p>>
GroupUrl(p, g) == <<"projects", p, "version_group", g>>
VersionUrl(p, v) == <<"projects", p, "versions", v>>
BuildUrl(p, v, b) == <<"projects", p, "versions", v, "builds", b>>
ArtifactUrl(p, v, b, n) == <<"projects", p, "versions", v, "builds", b, "downloads", n>>

\* ------------------------------------------------------------------ progress bars
Streams == {"check_file", "download", "validate", "save"}

NoBar == [status |-> "none", finished |-> FALSE, finalized |-> 0]

new_progress_bar == [status |-> "created", finished |-> FALSE, finalized |-> 0]

track_with(bar) == [bar EXCEPT !.status = "tracked"]

\* ProgressBar::finish, finish_with_message, abandon_with_message
BarFinalize(bar) == [bar EXCEPT !.finished = TRUE, !.finalized = @ + 1]

\* ProgressTrackingRead::read: abandon the bar on Err, whatever its kind
ProgressTrackingRead_read(bar, res) ==
    IF res.kind = "ok" THEN bar ELSE BarFinalize(bar)

\* Drop for ProgressTrackingRead: finish unless finished already
ProgressTrackingRead_drop(bar) ==
    [(IF bar.finished THEN bar ELSE BarFinalize(bar)) EXCEPT !.status = "dropped"]

VARIABLES
    pc,            \* where main() stands
    args,          \* PaperLatest: project, download_type, version, download_location
    attended,      \* console::user_attended()
    fs0,           \* the destination file before the run (None: no such file)
    fs,            \* the destination file now
    stdout_buf,    \* what was written to standard output
    opens,         \* how the destination was opened so far: "read", "write"
    requests,      \* every HTTP GET sent, in order: [url, ok]
    errors,        \* the operations that answered Err (or None) so far
    exit,          \* None while running, else Some([code, msg])
    project_data, group_data, version, version_data, build, build_data,
    download, download_hash, bytes,
    reader,        \* the stream being copied: [data, pos], or None
    buf,           \* what io::copy has handed to its writer so far
    interrupts,    \* reads that failed with ErrorKind::Interrupted
    bars           \* the progress bar of each stream

vars == <<pc, args, attended, fs0, fs, stdout_buf, opens, requests, errors, exit,
          project_data, group_data, version, version_data, build, build_data,
          download, download_hash, bytes, reader, buf, interrupts, bars>>

env == <<args, attended, fs0>>
meta == <<project_data, group_data, version, version_data, build, build_data,
          download, download_hash>>
dest == <<fs, stdout_buf, opens>>
stream == <<reader, buf, interrupts, bars>>

Stdout == [kind |-> "Stdout"]
DestFile == [kind |-> "File"]

Init ==
    /\ pc = "start"
    /\ args \in [project : {"paper"}, download_type : {"application"},
                 version : Names, download_location : {Stdout, DestFile}]
    \* user_attended() is asked only for a Stdout destination (&& short-circuits)
    /\ attended \in (IF args.download_location = Stdout THEN BOOLEAN ELSE {FALSE})
    /\ fs0 \in (IF args.download_location = Stdout THEN {None}
                ELSE {None} \cup {Some(c) : c \in Contents})
    /\ fs = fs0
    /\ stdout_buf = <<>>
    /\ opens = {}
    /\ requests = <<>>
    /\ errors = {}
    /\ exit = None
    /\ project_data = None /\ group_data = None /\ version = None
    /\ version_data = None /\ build = None /\ build_data = None
    /\ download = None /\ download_hash = None /\ bytes = None
    /\ reader = None /\ buf = <<>> /\ interrupts = 0
    /\ bars = [s \in Streams |-> NoBar]

\* ------------------------------------------------------------------ ends of a run
\* a panic (expect, unwrap, panic!): exit status 101
Panic(msg) == pc' = "failed" /\ exit' = Some([code |-> 101, msg |-> msg])

\* std::process::exit(1)
Exit1(msg) == pc' = "failed" /\ exit' = Some([code |-> 1, msg |-> msg])

Return == pc' = "done" /\ exit' = Some([code |-> 0, msg |-> "ok"])

Goto(l) == pc' = l /\ exit' = exit

\* an operation of the pipeline answered Err (or None where Some was needed)
Raised(e) == errors' = errors \cup {e}

\* do_get_json: one GET; Err for a transport, status or decode failure
Sent(url, ok) == requests' = Append(requests, [url |-> url, ok |-> ok])

\* ------------------------------------------------------------------ main
\* line 85
RefuseTerminal_never == FALSE

RefuseTerminal == args.download_location = Stdout /\ attended

TerminalGuard ==
    /\ pc = "start"
    /\ IF RefuseTerminal
       THEN Exit1("Refusing to write binary output to a terminal") /\ Raised("terminal")
       ELSE Goto("get_project") /\ UNCHANGED errors
    /\ UNCHANGED <<env, meta, dest, stream, requests, bytes>>

ProjectDatas ==
    [project_id : {"paper"}, version_groups : SUBSET Names, versions : SUBSET Names]

\* line 92: .expect() on the Err of do_get_json
ProjectFetchFailed_retry == Goto("get_project")

ProjectFetchFailed == Panic("Failed to get project data")

GetProject ==
    /\ pc = "get_project"
    /\ \/ /\ Sent(ProjectUrl(args.project), FALSE)
          /\ Raised("get_project")
          /\ ProjectFetchFailed
          /\ UNCHANGED project_data
       \/ \E pd \in ProjectDatas :
          /\ Sent(ProjectUrl(args.project), TRUE)
          /\ project_data' = Some(pd)
          /\ Goto("determine_version")
          /\ UNCHANGED errors
    /\ UNCHANGED <<env, dest, stream, bytes, group_data, version,
                   version_data, build, build_data, download, download_hash>>


\* ------------------------------------------------------------------ determine_version
GroupVersionLists == SeqsUpTo(Names, MaxGroupLen)

\* line 244: is the token a version group?
IsVersionGroup(pd, token) == token \in pd.version_groups

DetermineVersion ==
    /\ pc = "determine_version"
    /\ IF IsVersionGroup(Unwrap(project_data), args.version)
       THEN Goto("dv_get_group")
       ELSE Goto("dv_literal")
    /\ UNCHANGED <<env, meta, dest, stream, requests, errors, bytes>>

\* lines 245-249: the group's versions; .expect() panics on Err
GroupFetchFailed_fallthrough == Goto("dv_literal")

GroupFetchFailed == Panic("Failed to get version group data")

DvGetGroup ==
    /\ pc = "dv_get_group"
    /\ \/ /\ Sent(GroupUrl(Unwrap(project_data).project_id, args.version), FALSE)
          /\ Raised("get_group")
          /\ GroupFetchFailed
          /\ UNCHANGED group_data
       \/ \E vs \in GroupVersionLists :
          /\ Sent(GroupUrl(Unwrap(project_data).project_id, args.version), TRUE)
          /\ group_data' = Some([versions |-> vs])
          /\ Goto("dv_last")
          /\ UNCHANGED errors
    /\ UNCHANGED <<env, dest, stream, bytes, project_data, version,
                   version_data, build, build_data, download, download_hash>>

\* lines 250-252: the last of the group's versions, if there is one
DvLast ==
    /\ pc = "dv_last"
    /\ LET g == LastVersion(Unwrap(group_data).versions) IN
       IF IsSome(g)
       THEN version' = g /\ Goto("get_version")
       ELSE UNCHANGED version /\ Goto("dv_literal")
    /\ group_data' = None
    /\ UNCHANGED <<env, dest, stream, requests, errors, bytes, project_data,
                   version_data, build, build_data, download, download_hash>>

\* lines 254-261: the token as a literal version
DvLiteral ==
    /\ pc = "dv_literal"
    /\ IF args.version \in Unwrap(project_data).versions
       THEN version' = Some(args.version) /\ Goto("get_version") /\ UNCHANGED errors
       ELSE /\ UNCHANGED version
            /\ Raised("unknown_version")
            /\ Panic("Failed to determine version to download")
    /\ UNCHANGED <<env, dest, stream, requests, bytes, project_data,
                   group_data, version_data, build, build_data, download,
                   download_hash>>

\* ------------------------------------------------------------------ version, build
BuildLists == SeqsUpTo(BuildNumbers, MaxBuilds)

GetVersion ==
    /\ pc = "get_version"
    /\ \/ /\ Sent(VersionUrl(args.project, Unwrap(version)), FALSE)
          /\ Raised("get_version")
          /\ Panic("Failed to get version data")
          /\ UNCHANGED version_data
       \/ \E bs \in BuildLists :
          /\ Sent(VersionUrl(args.project, Unwrap(version)), TRUE)
          /\ version_data' = Some([builds |-> bs])
          /\ Goto("pick_build")
          /\ UNCHANGED errors
    /\ UNCHANGED <<env, dest, stream, bytes, project_data, group_data,
                   version, build, build_data, download, download_hash>>

\* lines 103-107: the builds are moved out of version_data
PickBuild ==
    /\ pc = "pick_build"
    /\ LET m == MaxBuild(Unwrap(version_data).builds) IN
       IF IsSome(m)
       THEN build' = m /\ Goto("get_build") /\ UNCHANGED errors
       ELSE UNCHANGED build /\ Raised("no_builds") /\ Panic("Version has no builds")
    /\ version_data' = None
    /\ UNCHANGED <<env, dest, stream, requests, bytes, project_data,
                   group_data, version, build_data, download, download_hash>>

\* the artifact of a download type other than the requested one
OtherDownload == [name |-> "mappings.txt", sha256 |-> <<"0", "a">>]

\* BuildData.downloads: download type -> Download
DownloadMaps ==
    {[t \in {} |-> OtherDownload], [t \in {"mojang-mappings"} |-> OtherDownload]}
    \cup {[t \in D |-> IF t = "application"
                       THEN [name |-> "paper.jar", sha256 |-> h]
                       ELSE OtherDownload] :
            D \in {DownloadTypes}, h \in HexStrings}

GetBuild ==
    /\ pc = "get_build"
    /\ \/ /\ Sent(BuildUrl(args.project, Unwrap(version), Unwrap(build)), FALSE)
          /\ Raised("get_build")
          /\ Panic("Failed to get build data")
          /\ UNCHANGED build_data
       \/ \E ds \in DownloadMaps :
          /\ Sent(BuildUrl(args.project, Unwrap(version), Unwrap(build)), TRUE)
          /\ build_data' = Some([downloads |-> ds])
          /\ Goto("get_download")
          /\ UNCHANGED errors
    /\ UNCHANGED <<env, dest, stream, bytes, project_data, group_data,
                   version, version_data, build, download, download_hash>>

\* lines 115-118
GetDownload ==
    /\ pc = "get_download"
    /\ LET ds == Unwrap(build_data).downloads IN
       IF args.download_type \in DOMAIN ds
       THEN /\ download' = Some(ds[args.download_type])
            /\ Goto("decode_hash")
            /\ UNCHANGED errors
       ELSE /\ UNCHANGED download
            /\ Raised("no_download")
            /\ Panic("No download of the given type available")
    /\ UNCHANGED <<env, dest, stream, requests, bytes, project_data,
                   group_data, version, version_data, build, build_data,
                   download_hash>>

\* lines 120-122
DecodeHash ==
    /\ pc = "decode_hash"
    /\ LET h == hex_decode(Unwrap(download).sha256) IN
       IF IsSome(h)
       THEN download_hash' = h /\ Goto("skip_check") /\ UNCHANGED errors
       ELSE /\ UNCHANGED download_hash
            /\ Raised("hex")
            /\ Panic("Got a sha256 value that wasn't hex")
    /\ UNCHANGED <<env, dest, stream, requests, bytes, project_data,
                   group_data, version, version_data, build, build_data, download>>

\* ------------------------------------------------------------------ streams
SetBar(s, bar) == bars' = [bars EXCEPT ![s] = bar]

\* what one read of the stream under a ProgressTrackingRead can answer: some
\* bytes, Ok(0) at the end, ErrorKind::Interrupted, or another error
ReadResults ==
    LET left == Len(Unwrap(reader).data) - Unwrap(reader).pos IN
    {[kind |-> "ok", n |-> k] : k \in (IF left = 0 THEN {0} ELSE 1..left)}
    \cup (IF interrupts < MaxInterrupted THEN {[kind |-> "interrupted", n |-> 0]} ELSE {})
    \cup {[kind |-> "error", n |-> 0]}

\* the bytes a read of n bytes hands over
Chunk(n) ==
    SubSeq(Unwrap(reader).data, Unwrap(reader).pos + 1, Unwrap(reader).pos + n)

\* std::io::copy, one turn of its loop: write what was read and go on
CopyOn(res) ==
    /\ reader' = Some([Unwrap(reader) EXCEPT !.pos = @ + res.n])
    /\ buf' = buf \o Chunk(res.n)
    /\ interrupts' = interrupts + (IF res.kind = "interrupted" THEN 1 ELSE 0)

\* std::io::copy goes on after Ok(n > 0) and after ErrorKind::Interrupted
CopyContinues(res) == (res.kind = "ok" /\ res.n > 0) \/ res.kind = "interrupted"

\* ------------------------------------------------------------------ skip check
\* lines 124-125
SkipCheck ==
    /\ pc = "skip_check"
    /\ IF args.download_location = DestFile /\ IsSome(fs)
       THEN Goto("cfh_open")
       ELSE Goto("download_send")
    /\ UNCHANGED <<env, meta, dest, stream, requests, errors, bytes>>

\* lines 126-129: check_file_hash answered Err
CheckFileHashErr_fatal == Panic("Failed to check file hash")

CheckFileHashErr == Goto("download_send")

\* lines 195-197
CfhOpen ==
    /\ pc = "cfh_open"
    /\ \/ /\ SetBar("check_file", [new_progress_bar EXCEPT !.status = "untracked"])
          /\ Raised("check_file_open")
          /\ CheckFileHashErr
          /\ UNCHANGED <<opens, reader, buf>>
       \/ /\ SetBar("check_file", track_with(new_progress_bar))
          /\ opens' = opens \cup {"read"}
          /\ reader' = Some([data |-> Unwrap(fs), pos |-> 0])
          /\ buf' = <<>>
          /\ Goto("cfh_copy")
          /\ UNCHANGED errors
    /\ UNCHANGED <<env, meta, fs, stdout_buf, requests, bytes, interrupts>>

\* lines 204-212: compare, finish the bar, answer is_good (line 130: skip)
CfhFinish_never_skip(bar) ==
    /\ SetBar("check_file", ProgressTrackingRead_drop(BarFinalize(bar)))
    /\ Goto("download_send")

CfhFinish(bar) ==
    /\ SetBar("check_file", ProgressTrackingRead_drop(BarFinalize(bar)))
    /\ IF Unwrap(download_hash) = Sha256(buf) THEN Return ELSE Goto("download_send")

\* lines 199-203: one read of the copy into the hasher
CfhRead ==
    /\ pc = "cfh_copy"
    /\ \E res \in ReadResults :
       LET bar == ProgressTrackingRead_read(bars["check_file"], res) IN
       IF CopyContinues(res)
       THEN /\ CopyOn(res)
            /\ SetBar("check_file", bar)
            /\ Goto("cfh_copy")
            /\ UNCHANGED errors
       ELSE /\ reader' = None
            /\ buf' = <<>>
            /\ UNCHANGED interrupts
            /\ IF res.kind = "ok"
               THEN CfhFinish(bar) /\ UNCHANGED errors
               ELSE /\ SetBar("check_file", ProgressTrackingRead_drop(bar))
                    /\ Raised("check_file_read")
                    /\ CheckFileHashErr
    /\ UNCHANGED <<env, meta, dest, requests, bytes>>

\* ------------------------------------------------------------------ download_build
\* lines 168-185
DownloadSend ==
    /\ pc = "download_send"
    /\ LET url == ArtifactUrl(args.project, Unwrap(version), Unwrap(build),
                              Unwrap(download).name) IN
       \/ /\ Sent(url, FALSE)
          /\ Raised("download_send")
          /\ Panic("Failed to download from stream")
          /\ UNCHANGED <<reader, buf, bars>>
       \/ \E body \in Contents :
          /\ Sent(url, TRUE)
          /\ SetBar("download", track_with(new_progress_bar))
          /\ reader' = Some([data |-> body, pos |-> 0])
          /\ buf' = <<>>
          /\ Goto("dl_copy")
          /\ UNCHANGED errors
    /\ UNCHANGED <<env, meta, dest, bytes, interrupts>>

\* lines 186-188: one read of the copy into the Vec
DlRead ==
    /\ pc = "dl_copy"
    /\ \E res \in ReadResults :
       LET bar == ProgressTrackingRead_read(bars["download"], res) IN
       IF CopyContinues(res)
       THEN /\ CopyOn(res)
            /\ SetBar("download", bar)
            /\ Goto("dl_copy")
            /\ UNCHANGED <<bytes, errors>>
       ELSE /\ reader' = None
            /\ buf' = <<>>
            /\ UNCHANGED interrupts
            /\ IF res.kind = "ok"
               THEN /\ SetBar("download", ProgressTrackingRead_drop(BarFinalize(bar)))
                    /\ bytes' = Some(buf)
                    /\ Goto("check_mem")
                    /\ UNCHANGED errors
               ELSE /\ SetBar("download", ProgressTrackingRead_drop(bar))
                    /\ UNCHANGED bytes
                    /\ Raised("download_read")
                    /\ Panic("Failed to download from stream")
    /\ UNCHANGED <<env, meta, dest, requests>>

\* ------------------------------------------------------------------ check_mem_hash
\* line 225
IsGood_always(expected, data) == TRUE

IsGood(expected, data) == expected = Sha256(data)

\* lines 215-238: a slice never fails to read, so the bar is finished once, at
\* line 229, before the panic
CheckMemHash ==
    /\ pc = "check_mem"
    /\ SetBar("validate",
              ProgressTrackingRead_drop(BarFinalize(track_with(new_progress_bar))))
    /\ IF IsGood(Unwrap(download_hash), Unwrap(bytes))
       THEN Goto("open_writer") /\ UNCHANGED errors
       ELSE Panic("Failed digest check") /\ Raised("digest")
    /\ UNCHANGED <<env, meta, dest, requests, bytes, reader, buf, interrupts>>

\* ------------------------------------------------------------------ persist
\* DownloadLocation::writer, then lines 146-148
OpenWriter ==
    /\ pc = "open_writer"
    /\ \/ /\ args.download_location = Stdout
          /\ opens' = opens \cup {"write"}
          /\ SetBar("save", track_with(new_progress_bar))
          /\ Goto("save")
          /\ UNCHANGED <<fs, errors>>
       \/ /\ args.download_location = DestFile
          /\ fs' = Some(<<>>)
          /\ opens' = opens \cup {"write"}
          /\ SetBar("save", track_with(new_progress_bar))
          /\ Goto("save")
          /\ UNCHANGED errors
       \/ /\ args.download_location = DestFile
          /\ Raised("create")
          /\ Panic("Failed to open writer to download location")
          /\ UNCHANGED <<fs, opens, bars>>
    /\ UNCHANGED <<env, meta, stdout_buf, requests, bytes, reader, buf, interrupts>>

\* what the writer holds after n more bytes
Written_short(data, n) == SubSeq(data, 1, n - 1)

Written(data, n) == SubSeq(data, 1, n)

\* lines 150-154: the copy to the writer stops at the first failed write
Save ==
    /\ pc = "save"
    /\ \E n \in 0..Len(Unwrap(bytes)) :
       /\ IF args.download_location = Stdout
          THEN stdout_buf' = stdout_buf \o Written(Unwrap(bytes), n) /\ UNCHANGED fs
          ELSE fs' = Some(Unwrap(fs) \o Written(Unwrap(bytes), n))
               /\ UNCHANGED stdout_buf
       /\ IF n = Len(Unwrap(bytes))
          THEN /\ SetBar("save", ProgressTrackingRead_drop(BarFinalize(bars["save"])))
               /\ Return
               /\ UNCHANGED errors
          ELSE /\ SetBar("save", ProgressTrackingRead_drop(bars["save"]))
               /\ Raised("write")
               /\ Panic("Failed to save bytes")
    /\ UNCHANGED <<env, meta, opens, requests, bytes, reader, buf, interrupts>>

Next ==
    \/ TerminalGuard \/ GetProject
    \/ DetermineVersion \/ DvGetGroup \/ DvLast \/ DvLiteral
    \/ GetVersion \/ PickBuild \/ GetBuild \/ GetDownload \/ DecodeHash
    \/ SkipCheck \/ CfhOpen \/ CfhRead
    \/ DownloadSend \/ DlRead \/ CheckMemHash \/ OpenWriter \/ Save

Spec == Init /\ [][Next]_vars

\* ------------------------------------------------------------------ properties
ArtifactRequested == \E i \in DOMAIN requests : Len(requests[i].url) = 8

TokenIsGroup == args.version \in Unwrap(project_data).version_groups
TokenIsVersion == args.version \in Unwrap(project_data).versions

PanickedWith(e, msg) == e = Some([code |-> 101, msg |-> msg])

DestinationUntouched == fs = fs0 /\ stdout_buf = <<>> /\ "write" \notin opens

\* the download came back whole and its digest is not the expected one
DigestMismatch == IsSome(bytes) /\ Unwrap(download_hash) # Sha256(Unwrap(bytes))

\* C1: whenever the digest of the downloaded bytes differs from the expected
\* digest, the run can only end in the fatal "Failed digest check" panic, and
\* the destination is never handed to a writer (DownloadLocation::writer is
\* not called: nothing is created, truncated or written), so that the file
\* holds what it held before the run and standard output holds nothing.
C1_IntegrityGate ==
    DigestMismatch =>
        /\ pc \in {"check_mem", "failed"}
        /\ pc = "failed" => PanickedWith(exit, "Failed digest check")
        /\ DestinationUntouched

C1_Witness ==
    /\ DigestMismatch
    /\ pc = "failed"
    /\ IsSome(fs0)
    /\ "read" \in opens

SkipErrors == {"check_file_open", "check_file_read"}

\* the destination is a file that exists, matches the expected digest, and
\* the skip check has met no failed open or read
MatchingFileReadable ==
    /\ args.download_location = DestFile
    /\ IsSome(fs0)
    /\ IsSome(download_hash)
    /\ Sha256(Unwrap(fs0)) = Unwrap(download_hash)
    /\ errors \cap SkipErrors = {}

\* C2: when the destination file exists, is read without error and has the
\* expected digest, the run never leaves the skip check except to end
\* successfully: no GET for the artifact body is sent and the file is neither
\* opened for writing nor changed.
C2_IdempotentRerun ==
    MatchingFileReadable =>
        /\ pc \in {"skip_check", "cfh_open", "cfh_copy", "done"}
        /\ ~ArtifactRequested
        /\ DestinationUntouched
        /\ bytes = None
        /\ pc = "done" => Unwrap(exit).code = 0

C2_Witness ==
    /\ MatchingFileReadable
    /\ pc = "done"
    /\ "read" \in opens

\* C3: with standard output as the destination and a terminal attached, no
\* request is ever sent, and the run can only end with exit status 1.
C3_TerminalGuard ==
    (args.download_location = Stdout /\ attended) =>
        /\ requests = <<>>
        /\ pc \in {"start", "failed"}
        /\ pc = "failed" => Unwrap(exit).code = 1

C3_Witness ==
    /\ args.download_location = Stdout
    /\ attended
    /\ pc = "failed"

C4_Step ==
    /\ (pc = "determine_version" /\ TokenIsGroup) => pc' = "dv_get_group"
    /\ (pc = "dv_last" /\ Unwrap(group_data).versions # <<>>) =>
           LET vs == Unwrap(group_data).versions IN
           /\ version' = Some(vs[Len(vs)])
           /\ pc' = "get_version"
           /\ requests' = requests
    /\ (pc = "determine_version" /\ ~TokenIsGroup /\ TokenIsVersion) =>
           pc' = "dv_literal" /\ requests' = requests
    /\ (pc = "dv_literal" /\ ~TokenIsGroup /\ TokenIsVersion) =>
           /\ version' = Some(args.version)
           /\ pc' = "get_version"
           /\ requests' = requests

\* C4: a token that names a version group whose fetched list is not empty
\* resolves to the last element of that list as given, also when the token is
\* a literal version too; a token that names no group and is a literal version
\* resolves to itself, and only the project request has been sent by then.
C4_ResolutionCorrectness ==
    /\ [][C4_Step]_vars
    /\ [](pc = "get_version" /\ ~TokenIsGroup =>
              version = Some(args.version) /\ Len(requests) = 1)

C4_Witness ==
    /\ pc = "get_version"
    /\ TokenIsGroup
    /\ TokenIsVersion
    /\ version # Some(args.version)

GroupFetchFailedStep == pc = "dv_get_group" /\ ~requests'[Len(requests')].ok
GroupEmptyStep == pc = "dv_last" /\ Unwrap(group_data).versions = <<>>

LiteralCheck ==
    pc = "dv_literal" =>
        IF TokenIsVersion
        THEN version' = Some(args.version) /\ pc' = "get_version"
        ELSE /\ pc' = "failed"
             /\ PanickedWith(exit', "Failed to determine version to download")

\* C5 as stated: after a failed group fetch, and after an empty group, the
\* resolver goes on to the literal-version check.
C5_FallThroughOnFetchFailure ==
    [][/\ (GroupFetchFailedStep \/ GroupEmptyStep) => (pc' = "dv_literal" /\ exit' = None)
       /\ LiteralCheck]_vars

\* C5, amended: a failed group fetch ends the run at once with the "Failed to
\* get version group data" panic and no version; an empty group falls through
\* to the literal-version check, which returns the token if it is one of the
\* project's versions and fails with the unknown-version error otherwise.
C5_FallThroughOnEmptyGroupOnly ==
    [][/\ GroupFetchFailedStep =>
              /\ pc' = "failed"
              /\ PanickedWith(exit', "Failed to get version group data")
              /\ version' = None
       /\ GroupEmptyStep => (pc' = "dv_literal" /\ exit' = None)
       /\ LiteralCheck]_vars

C5_Witness ==
    /\ pc = "failed"
    /\ "get_group" \in errors
    /\ TokenIsVersion

C6_Step ==
    pc = "pick_build" =>
        LET bs == Unwrap(version_data).builds IN
        IF bs = <<>>
        THEN /\ pc' = "failed"
             /\ PanickedWith(exit', "Version has no builds")
             /\ requests' = requests
        ELSE /\ \E i \in 1..Len(bs) : build' = Some(bs[i])
             /\ \A i \in 1..Len(bs) : bs[i] <= Unwrap(build')
             /\ pc' = "get_build"

BuildRequestsUseBuild ==
    \A i \in DOMAIN requests :
        Len(requests[i].url) >= 6 =>
            /\ IsSome(build)
            /\ requests[i].url[6] = Unwrap(build)
            /\ requests[i].url[4] = Unwrap(version)

\* C6: the build picked from a non-empty builds list is its maximum, in
\* whatever order the list comes; every build-metadata and artifact request is
\* for that build; an empty list ends the run before any such request.
C6_HighestBuild ==
    /\ [][C6_Step]_vars
    /\ []BuildRequestsUseBuild

C6_Witness ==
    /\ pc = "done"
    /\ build = Some(11)
    /\ \E i \in DOMAIN requests :
           Len(requests[i].url) = 8 /\ requests[i].url[6] = 11

\* C7: a failed open or read of the existing destination file during the skip
\* check never ends the run by itself: the run goes on from the download, as
\* for an absent file, and when it ends well the file holds the downloaded,
\* verified bytes.  No other failed operation leaves the run going.  (A read
\* that fails with ErrorKind::Interrupted is retried inside std::io::copy and
\* is no failed operation of the pipeline.)
C7_ToleratedSkipCheckFailure ==
    /\ pc = "failed" => errors \ SkipErrors # {}
    /\ pc # "failed" => errors \subseteq SkipErrors
    /\ errors \cap SkipErrors # {} =>
           /\ pc \in {"download_send", "dl_copy", "check_mem", "open_writer",
                      "save", "done", "failed"}
           /\ pc = "done" =>
                  /\ ArtifactRequested
                  /\ IsSome(bytes)
                  /\ fs = bytes
                  /\ Sha256(Unwrap(bytes)) = Unwrap(download_hash)

C7_Witness ==
    /\ errors \cap SkipErrors # {}
    /\ pc = "done"
    /\ fs # fs0

\* C8: the progress bar of every tracked stream is finalized at most once
\* while the stream lives and exactly once by the time it is dropped.
C8_FinalizedExactlyOnce ==
    \A s \in Streams :
        bars[s].status \in {"tracked", "dropped"} =>
            /\ bars[s].finalized <= 1
            /\ bars[s].status = "dropped" => bars[s].finalized = 1

FatalMetaErrors ==
    {"get_project", "get_version", "get_build", "unknown_version", "no_download", "hex"}

FatalStopsRun ==
    errors \cap FatalMetaErrors # {} =>
        /\ pc = "failed"
        /\ Unwrap(exit).code = 101
        /\ Cardinality(errors) = 1
        /\ opens = {}
        /\ DestinationUntouched
        /\ bytes = None
        /\ ~ArtifactRequested
        /\ \A i, j \in DOMAIN requests : i # j => requests[i].url # requests[j].url
        /\ \A i \in 1..(Len(requests) - 1) : requests[i].ok
        /\ requests[Len(requests)].ok <=>
               errors \subseteq {"unknown_version", "no_download", "hex"}

\* C9: the first failed metadata fetch (project, version, build), unknown
\* token, missing download type or malformed digest ends the run: it is the
\* only failure of the run, a failed fetch is the last request sent, no URL
\* was requested twice, the destination was never opened or written, and a
\* failed run takes no further step.
C9_FatalNoRetry ==
    /\ []FatalStopsRun
    /\ [][pc # "failed"]_vars

C9_Witness ==
    /\ pc = "failed"
    /\ "get_build" \in errors
    /\ Len(requests) = 4

\* C10: a run with a file destination that ends successfully leaves a file
\* whose digest is the one the fetched build names for the requested download
\* type; after a download the file holds exactly the downloaded bytes, after a
\* skip it holds what it held before.
C10_SuccessImpliesVerified ==
    (pc = "done" /\ args.download_location = DestFile) =>
        /\ IsSome(fs)
        /\ Some(Sha256(Unwrap(fs))) =
               hex_decode(Unwrap(build_data).downloads[args.download_type].sha256)
        /\ IsSome(bytes) => fs = bytes
        /\ bytes = None => fs = fs0

C10_Witness ==
    /\ pc = "done"
    /\ args.download_location = DestFile
    /\ IsSome(bytes)
    /\ IsSome(fs0)
    /\ fs # fs0

====
